---- MODULE Spec2Model ----
(***************************************************************************)
(* lgswitch: a daemon that watches the udev hotplug stream for one USB     *)
(* keyboard and switches the HDMI input of an LG TV accordingly.           *)
(*                                                                         *)
(* The model follows src/lgswitch.py.  One asyncio event loop runs         *)
(*   - async_main (the main task),                                         *)
(*   - monitor_task = KeyboardMonitor.start_monitoring,                    *)
(*   - one task per TVSwitcher.switch_input scheduled by                   *)
(*     asyncio.run_coroutine_threadsafe from handle_device_event.          *)
(* A task runs from one await to the next without interruption, so every   *)
(* action below is one such run; the pc of a switch_input invocation names *)
(* the call it is suspended in.                                            *)
(*                                                                         *)
(* Python values: None, True and False of keyboard_connected, of the       *)
(* connected argument and of a result are the strings "None", "True",      *)
(* "False".  Identifiers (ID_VENDOR_ID, ID_MODEL_ID) are sequences of      *)
(* one-character strings, so that str.lower() is computed, not assumed.    *)
(* Times are in units of 100 ms.                                           *)
(***************************************************************************)
EXTENDS Integers, Sequences, FiniteSets, TLC

\* ------------------------------------------------------------------ bounds
\* The largest value time.time() takes in a run.  Two events can be accepted
\* a debounce window apart, so a run makes up to three switch_input calls.
MaxTime == 11
\* The most calls on the TV client or the storage that raise in a run.
MaxFailures == 1

\* The connect and cleanup invocations made on one TVSwitcher object.
MaxCalls == 4
\* The largest value time.time() takes in a run of the daemon followed over
\* a longer period: nine units (900 ms) after the first reading.
MaxTimeLong == 15

\* --------------------------------------------------------------- constants
\* self.debounce_delay = 0.5 (seconds), here in units of 100 ms.
debounce_delay == 5
\* The first reading of time.time(): the epoch is more than the debounce
\* delay behind, so the first qualifying event always passes the window
\* against last_event_time = 0.
StartTime == debounce_delay + 1

\* config['keyboard'] as setup.py writes it (vendor and model id non-empty,
\* in whatever case udev reported them).
ConfigVendorId == <<"4", "D">>
ConfigModelId == <<"c", "1">>

\* ----------------------------------------------------------------- devices
\* What device.get(key) returns: "None" for a missing ID_BUS or
\* ID_INPUT_KEYBOARD, and <<>> (the default '') for a missing id.
BusValues == {"usb", "pci", "None"}
KeyboardValues == {"1", "None"}
VendorValues == {<<"4", "d">>, <<"4", "D">>, <<"4", "e">>, <<>>}
ModelValues == {<<"c", "1">>, <<"C", "1">>, <<"c", "2">>, <<>>}

Device(bus, kbd, vendor, model) ==
    [ID_BUS |-> bus, ID_INPUT_KEYBOARD |-> kbd,
     ID_VENDOR_ID |-> vendor, ID_MODEL_ID |-> model]

Devices ==
    {Device(b, k, v, m) : b \in BusValues, k \in KeyboardValues,
                          v \in VendorValues, m \in ModelValues}

\* The devices the full daemon is run against: the target keyboard as udev
\* reports it, and another USB keyboard of the same vendor.
TargetDevice == Device("usb", "1", <<"4", "D">>, <<"c", "1">>)
OtherKeyboard == Device("usb", "1", <<"4", "D">>, <<"c", "2">>)

\* The enumerations and the udev events (device.action, device) the daemon
\* as a whole is run against.
DaemonScans == {{OtherKeyboard}, {OtherKeyboard, TargetDevice}}
DaemonEvents ==
    {<<"add", TargetDevice>>, <<"remove", TargetDevice>>,
     <<"add", OtherKeyboard>>, <<"change", TargetDevice>>}

\* device.action of a udev event.
UdevActions == {"add", "remove", "change"}

NoDevice == Device("None", "None", <<>>, <<>>)

\* str.lower() on the characters in use.
LowerChar(c) ==
    CASE c = "A" -> "a"
      [] c = "B" -> "b"
      [] c = "C" -> "c"
      [] c = "D" -> "d"
      [] c = "E" -> "e"
      [] c = "F" -> "f"
      [] OTHER -> c

lower(s) == [i \in DOMAIN s |-> LowerChar(s[i])]

VARIABLES
    vendor_id,          \* KeyboardMonitor.vendor_id
    model_id,           \* KeyboardMonitor.model_id
    turn_on_screen,     \* TVSwitcher.turn_on_screen
    keyboard_connected, \* KeyboardMonitor.keyboard_connected
    last_event_time,    \* KeyboardMonitor.last_event_time
    running,            \* KeyboardMonitor.running
    storage,            \* TVSwitcher.storage: "None", "created", "ready"
    client,             \* TVSwitcher.client
    cleanup_done,       \* TVSwitcher._cleanup_done
    shutdown_event,     \* async_main: shutdown_event.is_set()
    main_pc,            \* async_main: "waiting", "cleanup", "stopped"
    monitor_pc,         \* monitor_task: "init", "startup", "polling",
                        \*               "exited", "cancelled"
    tasks,              \* the switch_input invocations, in the order made
    next_handle,        \* the number of WebOsClient objects created
    tv_log,             \* the launch_app calls the TV completed, in order
    now,                \* the last reading of time.time()
    event,              \* the last qualifying event handled, and its outcome
    rejected,           \* the last polled event that did not qualify
    initial_devices,    \* what context.list_devices returned at startup
    failures,           \* the calls that have raised so far
    error_logged,       \* "Error in monitor loop" was logged
    calls               \* the TVSwitcher.connect and TVSwitcher.cleanup
                        \* invocations, in the order made

vars ==
    <<vendor_id, model_id, turn_on_screen, keyboard_connected,
      last_event_time, running, storage, client, cleanup_done,
      shutdown_event, main_pc, monitor_pc, tasks, next_handle, tv_log, now,
      event, rejected, initial_devices, failures, error_logged, calls>>

config_vars == <<vendor_id, model_id, turn_on_screen>>
lifecycle_vars == <<running, shutdown_event, main_pc, cleanup_done, client>>
history_vars == <<event, rejected, initial_devices>>

NoEvent == [action |-> "None", device |-> NoDevice, outcome |-> "None"]

\* ---------------------------------------------------------- KeyboardMonitor
\* A filter that compares the ids as udev reports them, without lower().
is_target_keyboard_case_sensitive(device) ==
    IF device.ID_BUS # "usb" THEN FALSE
    ELSE IF device.ID_INPUT_KEYBOARD # "1" THEN FALSE
    ELSE /\ device.ID_VENDOR_ID = vendor_id
         /\ device.ID_MODEL_ID = model_id

\* KeyboardMonitor.is_target_keyboard
is_target_keyboard(device) ==
    IF device.ID_BUS # "usb" THEN FALSE
    ELSE IF device.ID_INPUT_KEYBOARD # "1" THEN FALSE
    ELSE /\ lower(device.ID_VENDOR_ID) = vendor_id
         /\ lower(device.ID_MODEL_ID) = model_id

\* The test check_initial_state makes on each listed device (it does not
\* call is_target_keyboard).
InitialScanMatches(device) ==
    /\ device.ID_INPUT_KEYBOARD = "1"
    /\ device.ID_BUS = "usb"
    /\ lower(device.ID_VENDOR_ID) = vendor_id
    /\ lower(device.ID_MODEL_ID) = model_id

\* A startup scan that leaves the tracked state unknown.
InitialStateUnresolved(devices) == "None"

\* A scan that reports the keyboard absent whatever is attached.
InitialStateAbsent(devices) == "False"

\* check_initial_state: the value keyboard_connected takes.
InitialState(devices) ==
    IF \E d \in devices : InitialScanMatches(d) THEN "True" ELSE "False"

\* A debounce window measured from the last qualifying event handled,
\* dropped or not, so that dropped events extend it.
DebouncedFromLastHandled(current_time) ==
    event # NoEvent /\ current_time - now < debounce_delay

\* A handler with no debounce window.
DebouncedNever(current_time) == FALSE

\* A debounce test that also drops the event arriving exactly one window
\* after the last accepted one.
DebouncedInclusive(current_time) ==
    current_time - last_event_time <= debounce_delay

\* handle_device_event: the debounce test.
Debounced(current_time) == current_time - last_event_time < debounce_delay

\* A handler that asks for the attached state whatever the event.
TargetOfAlwaysPresent(action) == "True"

\* handle_device_event: the state an 'add' or 'remove' asks for.
TargetOf(action) == IF action = "add" THEN "True" ELSE "False"

\* A handler that compares with the target of the last invocation that has
\* ended, as if the tracked state were updated only when the action is over.
StateDiffersCompleted(action) ==
    LET ended == {i \in DOMAIN tasks : tasks[i].pc = "done"}
        last == CHOOSE i \in ended : \A j \in ended : j <= i
    IN  IF ended = {} THEN keyboard_connected # TargetOf(action)
        ELSE tasks[last].connected # TargetOf(action)

\* A handler that never compares with the tracked state.
StateAlwaysDiffers(action) == TRUE

\* handle_device_event: `if self.keyboard_connected is not True/False`.
StateDiffers(action) == keyboard_connected # TargetOf(action)

\* ---------------------------------------------------------------- TVSwitcher
\* One switch_input invocation.
\*   connected   the argument
\*   pc          "scheduled" (not yet started), the call awaited
\*               ("async_init", "create", "connect", "turn_screen_on",
\*               "launch_app", "disconnect", "disconnect_except"), or "done"
\*   handle      the local `client`: 0 for None, else the WebOsClient made
\*   wake        turn_screen_on: "None" (not called), "ok", "failed"
\*   launch      launch_app: "None", "called" (awaited), "ok", "failed"
\*   disconnects the disconnect calls made on the handle
\*   error       the call whose exception reached `except Exception`
\*   result      "None" (running), "True", "False", or "cancelled"
\*               (CancelledError left the coroutine)
NewTask(connected) ==
    [connected |-> connected, pc |-> "scheduled", handle |-> 0,
     wake |-> "None", launch |-> "None", disconnects |-> 0,
     error |-> "None", result |-> "None"]

\* An initialize_storage that makes a new storage object on every call.
StorageAfterStartFresh == "created"

\* initialize_storage, up to its await: the storage object is made and
\* assigned before async_init is awaited.
StorageAfterStart == IF storage = "None" THEN "created" ELSE storage

\* switch_input from its first line to its first await.
Start(t) ==
    IF storage = "None"
    THEN [t EXCEPT !.pc = "async_init"]
    ELSE [t EXCEPT !.pc = "create"]

\* An exception that leaves switch_input instead of being caught.
OnErrorRaising(t, call) ==
    [t EXCEPT !.error = call, !.pc = "done", !.result = "raised"]

\* `except Exception as e:` of switch_input, up to its await or return.
OnError(t, call) ==
    IF t.handle # 0
    THEN [t EXCEPT !.error = call, !.pc = "disconnect_except",
                   !.disconnects = @ + 1]
    ELSE [t EXCEPT !.error = call, !.pc = "done", !.result = "False"]

\* After client.connect(): the wake step is taken only for connected with
\* turn_on_screen.
AfterConnect(t) ==
    IF t.connected = "True" /\ turn_on_screen
    THEN [t EXCEPT !.pc = "turn_screen_on"]
    ELSE [t EXCEPT !.pc = "launch_app", !.launch = "called"]

\* A wake failure that aborts the action, as if turn_screen_on were not
\* wrapped in its own try.
AfterWakeAborting(t, ok) ==
    IF ok
    THEN [t EXCEPT !.wake = "ok", !.pc = "launch_app", !.launch = "called"]
    ELSE [t EXCEPT !.wake = "failed", !.error = "turn_screen_on",
                   !.pc = "disconnect_except", !.disconnects = @ + 1]

\* The inner try around turn_screen_on: a failure is logged and the code
\* goes on to launch_app.
AfterWake(t, ok) ==
    [t EXCEPT !.wake = IF ok THEN "ok" ELSE "failed", !.pc = "launch_app",
              !.launch = "called"]

\* After launch_app returned: the disconnect of line 124 is awaited.
AfterLaunch(t) ==
    [t EXCEPT !.launch = "ok", !.pc = "disconnect", !.disconnects = @ + 1]

\* A create that hands out the client made last, when there is one.
create_cached == IF next_handle = 0 THEN 1 ELSE next_handle

\* WebOsClient.create: a new client object on every call.
create == next_handle + 1

\* The awaited call of t returns (ok) or raises (~ok): t at its next await
\* or at its return.
Resume(t, ok) ==
    CASE t.pc = "async_init" ->
            IF ok THEN [t EXCEPT !.pc = "create"] ELSE OnError(t, "async_init")
      [] t.pc = "create" ->
            IF ok THEN [t EXCEPT !.handle = create, !.pc = "connect"]
            ELSE OnError(t, "create")
      [] t.pc = "connect" ->
            IF ok THEN AfterConnect(t) ELSE OnError(t, "connect")
      [] t.pc = "turn_screen_on" -> AfterWake(t, ok)
      [] t.pc = "launch_app" ->
            IF ok THEN AfterLaunch(t)
            ELSE OnError([t EXCEPT !.launch = "failed"], "launch_app")
      [] t.pc = "disconnect" ->
            IF ok THEN [t EXCEPT !.pc = "done", !.result = "True"]
            ELSE OnError(t, "disconnect")
      [] t.pc = "disconnect_except" ->
            \* try: await client.disconnect() / except: pass / return False
            [t EXCEPT !.pc = "done", !.result = "False"]
      [] OTHER -> t

\* Task.cancel() on a switch_input invocation: CancelledError is raised at
\* its await.  It is not an Exception, so only the bare `except:` around the
\* second disconnect catches it.
Cancel(t) ==
    IF t.pc = "done" THEN t
    ELSE IF t.pc = "disconnect_except"
         THEN [t EXCEPT !.pc = "done", !.result = "False"]
         ELSE [t EXCEPT !.pc = "done", !.result = "cancelled"]

\* One TVSwitcher.connect or TVSwitcher.cleanup invocation.
\*   op            "connect" or "cleanup"
\*   pc            the call awaited ("async_init", "connect", "disconnect"),
\*                 or "done"
\*   disconnected  self.client.disconnect() was called by this invocation
\*   result        connect: "None" (running), "True", "False"
NewCall(op) ==
    [op |-> op, pc |-> "done", disconnected |-> FALSE, result |-> "None"]

\* TVSwitcher.disconnect as called from cleanup, up to its await: the
\* client's disconnect is called only when self.client is set.
disconnect ==
    IF client # "None"
    THEN [NewCall("cleanup") EXCEPT !.pc = "disconnect",
                                    !.disconnected = TRUE]
    ELSE NewCall("cleanup")

\* A cleanup without the _cleanup_done guard.
cleanup_unguarded == disconnect

\* TVSwitcher.cleanup up to its await or return.
cleanup == IF cleanup_done THEN NewCall("cleanup") ELSE disconnect

\* TVSwitcher.connect up to its await or return.
connect ==
    IF client # "None" THEN [NewCall("connect") EXCEPT !.result = "True"]
    ELSE IF storage = "None"
         THEN [NewCall("connect") EXCEPT !.pc = "async_init"]
         ELSE [NewCall("connect") EXCEPT !.pc = "connect"]

\* The call awaited by connect or cleanup invocation c returns (ok) or
\* raises (~ok).
ResumeCall(c, ok) ==
    CASE c.pc = "async_init" ->
            IF ok THEN [c EXCEPT !.pc = "connect"]
            ELSE [c EXCEPT !.pc = "done", !.result = "False"]
      [] c.pc = "connect" ->
            [c EXCEPT !.pc = "done",
                      !.result = IF ok THEN "True" ELSE "False"]
      [] OTHER -> [c EXCEPT !.pc = "done"]

\* self.client once the awaited call of c has returned or raised:
\* connect assigns the new WebOsClient after initialize_storage and resets
\* the slot in its except; disconnect resets it in its finally.
ClientAfterCall(c, ok) ==
    IF c.pc = "async_init" /\ ok THEN "WebOsClient"
    ELSE IF c.pc = "connect" /\ ok THEN client
    ELSE "None"

\* ------------------------------------------------------------------- Init
\* The state once async_main has built the TVSwitcher and the
\* KeyboardMonitor from the configuration and created its two tasks.
Construct(config_vendor_id, config_model_id, config_turn_on_screen) ==
    /\ vendor_id = lower(config_vendor_id)
    /\ model_id = lower(config_model_id)
    /\ turn_on_screen = config_turn_on_screen
    /\ keyboard_connected = "None"
    /\ last_event_time = 0
    /\ running = TRUE
    /\ storage = "None"
    /\ client = "None"
    /\ cleanup_done = FALSE
    /\ shutdown_event = FALSE
    /\ main_pc = "waiting"
    /\ monitor_pc = "init"
    /\ tasks = <<>>
    /\ next_handle = 0
    /\ tv_log = <<>>
    /\ now = StartTime
    /\ event = NoEvent
    /\ rejected = NoEvent
    /\ initial_devices = {}
    /\ failures = 0
    /\ error_logged = FALSE
    /\ calls = <<>>

Init ==
    \E config_turn_on_screen \in BOOLEAN :
        Construct(ConfigVendorId, ConfigModelId, config_turn_on_screen)

\* ---------------------------------------------------------------- actions
\* start_monitoring up to its first suspension: check_initial_state scans
\* the attached devices, sets keyboard_connected and calls switch_input,
\* which runs to its first await.
StartMonitoring(devices) ==
    /\ monitor_pc = "init"
    /\ keyboard_connected' = InitialState(devices)
    /\ tasks' = <<Start(NewTask(InitialState(devices)))>>
    /\ storage' = StorageAfterStart
    /\ monitor_pc' = "startup"
    /\ initial_devices' = devices
    /\ UNCHANGED <<config_vars, calls, lifecycle_vars, last_event_time, next_handle,
                   tv_log, now, event, rejected, failures, error_logged>>

\* A loop that polls again whatever the run flag says.
LoopTestAlways == "polling"

\* `while self.running:` as evaluated when the monitor task resumes.
LoopTest == IF running THEN "polling" ELSE "exited"

\* A switch_input scheduled by run_coroutine_threadsafe starts: the loop
\* starts the scheduled coroutines in the order they were scheduled.
Begin(i) ==
    /\ main_pc # "stopped"
    /\ tasks[i].pc = "scheduled"
    /\ \A j \in 1..(i - 1) : tasks[j].pc # "scheduled"
    /\ tasks' = [tasks EXCEPT ![i] = Start(@)]
    /\ storage' = StorageAfterStart
    /\ UNCHANGED <<config_vars, calls, lifecycle_vars, keyboard_connected,
                   last_event_time, monitor_pc, next_handle, tv_log, now,
                   history_vars, failures, error_logged>>

\* The call switch_input invocation i awaits returns (ok) or raises (~ok).
\* Invocation 1 is the one check_initial_state awaits: when it returns,
\* start_monitoring goes on to its loop.
Step(i, ok) ==
    /\ i \in DOMAIN tasks
    /\ main_pc # "stopped"
    /\ tasks[i].pc \notin {"scheduled", "done"}
    /\ ok \/ failures < MaxFailures
    /\ tasks' = [tasks EXCEPT ![i] = Resume(@, ok)]
    /\ failures' = IF ok THEN failures ELSE failures + 1
    /\ storage' = IF tasks[i].pc = "async_init" /\ ok THEN "ready" ELSE storage
    /\ next_handle' = IF tasks[i].pc = "create" /\ ok
                      THEN next_handle + 1 ELSE next_handle
    /\ tv_log' = IF tasks[i].pc = "launch_app" /\ ok
                 THEN Append(tv_log, i) ELSE tv_log
    /\ monitor_pc' = IF i = 1 /\ monitor_pc = "startup"
                        /\ Resume(tasks[i], ok).pc = "done"
                     THEN LoopTest ELSE monitor_pc
    /\ UNCHANGED <<config_vars, calls, lifecycle_vars, keyboard_connected,
                   last_event_time, now, history_vars, error_logged>>

\* A handler that compares with the tracked state before it looks at the
\* debounce window.
OutcomeComparingFirst(action, device, t) ==
    IF ~is_target_keyboard(device) THEN "filtered"
    ELSE IF ~StateDiffers(action) THEN "noop"
    ELSE IF Debounced(t) THEN "dropped"
    ELSE "switch"

\* What handle_device_event does with an 'add' or 'remove' of `device` read
\* at time t: "filtered" (not the target keyboard), "dropped" (debounced),
\* "switch" (a switch_input is scheduled) or "noop" (already in that state).
Outcome(action, device, t) ==
    IF ~is_target_keyboard(device) THEN "filtered"
    ELSE IF Debounced(t) THEN "dropped"
    ELSE IF StateDiffers(action) THEN "switch"
    ELSE "noop"

Record(action, device, outcome) ==
    [action |-> action, device |-> device, outcome |-> outcome]

\* handle_device_event(action, device) with time.time() = t.  The clock is
\* read only after the filter.
handle_device_event(action, device, t) ==
    LET outcome == Outcome(action, device, t) IN
    IF outcome = "filtered"
    THEN /\ t = now
         /\ rejected' = Record(action, device, outcome)
         /\ UNCHANGED <<now, event, last_event_time, keyboard_connected,
                        tasks>>
    ELSE /\ now' = t
         /\ event' = Record(action, device, outcome)
         /\ UNCHANGED rejected
         /\ IF outcome = "dropped"
            THEN UNCHANGED <<last_event_time, keyboard_connected, tasks>>
            ELSE /\ last_event_time' = t
                 /\ IF outcome = "switch"
                    THEN /\ keyboard_connected' = TargetOf(action)
                         /\ tasks' = Append(tasks, NewTask(TargetOf(action)))
                    ELSE UNCHANGED <<keyboard_connected, tasks>>

\* monitor.poll returned a device: one pass of the monitor loop
\* (`if device and device.action in ('add', 'remove')`, then the loop test).
PollEvent(action, device, t) ==
    /\ monitor_pc = "polling"
    /\ IF action \in {"add", "remove"}
       THEN handle_device_event(action, device, t)
       ELSE /\ t = now
            /\ rejected' = Record(action, device, "skipped")
            /\ UNCHANGED <<now, event, last_event_time, keyboard_connected,
                           tasks>>
    /\ monitor_pc' = LoopTest
    /\ UNCHANGED <<config_vars, calls, lifecycle_vars, storage, next_handle, tv_log,
                   initial_devices, failures, error_logged>>

\* monitor.poll(timeout=0.5) returned None.
PollTimeout ==
    /\ monitor_pc = "polling"
    /\ monitor_pc' = LoopTest
    /\ UNCHANGED <<config_vars, calls, lifecycle_vars, keyboard_connected,
                   last_event_time, storage, tasks, next_handle, tv_log, now,
                   history_vars, failures, error_logged>>

\* A poll error that is logged whatever the run flag says.
PollErrorAlwaysLogged ==
    /\ monitor_pc = "polling"
    /\ monitor_pc' = "exited"
    /\ error_logged' = TRUE
    /\ UNCHANGED <<config_vars, calls, lifecycle_vars, keyboard_connected,
                   last_event_time, storage, tasks, next_handle, tv_log, now,
                   history_vars, failures>>

\* The poll raised: logged only while running, and the loop is left.
PollError ==
    /\ monitor_pc = "polling"
    /\ monitor_pc' = "exited"
    /\ error_logged' = running
    /\ UNCHANGED <<config_vars, calls, lifecycle_vars, keyboard_connected,
                   last_event_time, storage, tasks, next_handle, tv_log, now,
                   history_vars, failures>>

\* signal_handler (SIGINT or SIGTERM): the loop runs it only after the
\* monitor task's first step, and it does nothing once the event is set.
Signal ==
    /\ monitor_pc # "init"
    /\ main_pc # "stopped"
    /\ ~shutdown_event
    /\ running' = FALSE
    /\ shutdown_event' = TRUE
    /\ UNCHANGED <<config_vars, calls, main_pc, cleanup_done, client,
                   keyboard_connected, last_event_time, storage, monitor_pc,
                   tasks, next_handle, tv_log, now, history_vars, failures,
                   error_logged>>

\* monitor_task.cancel(), as async_main does to a pending monitor task.
\* In the loop the CancelledError leaves run_in_executor and the task; in
\* check_initial_state it is raised inside switch_input invocation 1, and
\* if the bare except swallows it start_monitoring goes on to its loop test.
MonitorAfterCancel ==
    IF monitor_pc = "polling" THEN "cancelled"
    ELSE IF monitor_pc = "startup"
         THEN IF Cancel(tasks[1]).result = "cancelled"
              THEN "cancelled" ELSE LoopTest
         ELSE monitor_pc

\* asyncio.wait(FIRST_COMPLETED) returns in async_main: the shutdown event
\* is set or the monitor task has ended; whatever is pending is cancelled.
Shutdown ==
    /\ main_pc = "waiting"
    /\ shutdown_event \/ monitor_pc = "exited"
    /\ monitor_pc' = MonitorAfterCancel
    /\ tasks' = IF monitor_pc = "startup"
                THEN [tasks EXCEPT ![1] = Cancel(@)] ELSE tasks
    /\ main_pc' = "cleanup"
    /\ UNCHANGED <<config_vars, calls, running, shutdown_event, cleanup_done, client,
                   keyboard_connected, last_event_time, storage, next_handle,
                   tv_log, now, history_vars, failures, error_logged>>

\* The finally of async_main and the end of asyncio.run: cleanup() (its
\* disconnect finds self.client None, so it returns without suspending),
\* then every task still pending is cancelled and the loop is closed.
Finish ==
    /\ main_pc = "cleanup"
    /\ cleanup.pc = "done"
    /\ calls' = Append(calls, cleanup)
    /\ cleanup_done' = TRUE
    /\ tasks' = [i \in DOMAIN tasks |-> Cancel(tasks[i])]
    /\ main_pc' = "stopped"
    /\ UNCHANGED <<config_vars, running, shutdown_event, client,
                   keyboard_connected, last_event_time, storage, monitor_pc,
                   next_handle, tv_log, now, history_vars, failures,
                   error_logged>>

Next ==
    \/ \E devices \in DaemonScans : StartMonitoring(devices)
    \/ \E i \in DOMAIN tasks : Begin(i)
    \/ \E i \in DOMAIN tasks, ok \in BOOLEAN : Step(i, ok)
    \/ \E e \in DaemonEvents, t \in now..MaxTime : PollEvent(e[1], e[2], t)
    \/ PollTimeout
    \/ PollError
    \/ Signal
    \/ Shutdown
    \/ Finish

Spec == Init /\ [][Next]_vars

\* The daemon under its scheduling: the event loop runs async_main as soon
\* as asyncio.wait has something done (the shutdown event is set or the
\* monitor task has ended), and its finally block after that.  The poll
\* pending at a shutdown request returns within its timeout, so the
\* executor never holds the loop's close back.
SpecLive == Spec /\ WF_vars(Shutdown) /\ WF_vars(Finish)

\* ------------------------------------------------------- the event filter
\* The monitor alone, with configurations in either case: startup, then the
\* first event the poll loop receives, drawn from every device of Devices
\* and every udev action.  The switch_input call the event schedules is
\* left pending, since handle_device_event reads nothing of it.
FilterConfigVendorIds == {<<"4", "D">>, <<"4", "d">>}
FilterConfigModelIds == {<<"c", "1">>, <<"C", "1">>}
FilterScans == {{}, {OtherKeyboard}, {TargetDevice}}

InitFilter ==
    \E v \in FilterConfigVendorIds, m \in FilterConfigModelIds :
        Construct(v, m, TRUE)

NextFilter ==
    \/ \E devices \in FilterScans : StartMonitoring(devices)
    \/ \E ok \in BOOLEAN : Step(1, ok)
    \/ \E action \in UdevActions, device \in Devices, t \in now..MaxTime :
          /\ event = NoEvent
          /\ rejected = NoEvent
          /\ PollEvent(action, device, t)
    \/ PollTimeout

SpecFilter == InitFilter /\ [][NextFilter]_vars

\* ------------------------------------------------- the TVSwitcher object
\* The TVSwitcher alone: connect and cleanup invoked any number of times,
\* in any order and interleaving, on one object.
CallConnect ==
    /\ Len(calls) < MaxCalls
    /\ calls' = Append(calls, connect)
    /\ storage' = IF client = "None" THEN StorageAfterStart ELSE storage
    /\ client' = IF connect.pc = "connect" THEN "WebOsClient" ELSE client
    /\ UNCHANGED <<config_vars, keyboard_connected, last_event_time, running,
                   cleanup_done, shutdown_event, main_pc, monitor_pc, tasks,
                   next_handle, tv_log, now, history_vars, failures,
                   error_logged>>

CallCleanup ==
    /\ Len(calls) < MaxCalls
    /\ calls' = Append(calls, cleanup)
    /\ cleanup_done' = TRUE
    /\ UNCHANGED <<config_vars, keyboard_connected, last_event_time, running,
                   storage, client, shutdown_event, main_pc, monitor_pc,
                   tasks, next_handle, tv_log, now, history_vars, failures,
                   error_logged>>

Return(i, ok) ==
    /\ calls[i].pc # "done"
    /\ ok \/ failures < MaxFailures
    /\ calls' = [calls EXCEPT ![i] = ResumeCall(@, ok)]
    /\ failures' = IF ok THEN failures ELSE failures + 1
    /\ storage' = IF calls[i].pc = "async_init" /\ ok THEN "ready" ELSE storage
    /\ client' = ClientAfterCall(calls[i], ok)
    /\ UNCHANGED <<config_vars, keyboard_connected, last_event_time, running,
                   cleanup_done, shutdown_event, main_pc, monitor_pc, tasks,
                   next_handle, tv_log, now, history_vars, error_logged>>

NextSwitcher ==
    \/ CallConnect
    \/ CallCleanup
    \/ \E i \in DOMAIN calls, ok \in BOOLEAN : Return(i, ok)

SpecSwitcher == Init /\ [][NextSwitcher]_vars

\* ------------------------------------------------ transitions over time
\* The daemon started with the keyboard detached and followed up to
\* MaxTimeLong, receiving attach and detach events of the target keyboard
\* only, with no shutdown request.
InitTransitions == Construct(ConfigVendorId, ConfigModelId, TRUE)

NextTransitions ==
    \/ StartMonitoring({OtherKeyboard})
    \/ \E i \in DOMAIN tasks : Begin(i)
    \/ \E i \in DOMAIN tasks, ok \in BOOLEAN : Step(i, ok)
    \/ \E action \in {"add", "remove"}, t \in now..MaxTimeLong :
          PollEvent(action, TargetDevice, t)

SpecTransitions == InitTransitions /\ [][NextTransitions]_vars

\* The same run receiving every event of DaemonEvents: attach and detach
\* of the target keyboard, and events that do not qualify.
NextFrame ==
    \/ StartMonitoring({OtherKeyboard})
    \/ \E i \in DOMAIN tasks : Begin(i)
    \/ \E i \in DOMAIN tasks, ok \in BOOLEAN : Step(i, ok)
    \/ \E e \in DaemonEvents, t \in now..MaxTimeLong :
          PollEvent(e[1], e[2], t)

SpecFrame == InitTransitions /\ [][NextFrame]_vars

\* ------------------------------------------------------------ properties
\* A qualifying event was handled in this step (the handler records it and
\* the time it read).
QualifyingHandled == event' # event \/ now' # now

Accepted(e) == e.outcome \in {"switch", "noop"}

\* C1 (debounce): when the last qualifying event handled was accepted at
\* time t (= now) and the next one arrives at t + D (= now'), the next one
\* is dropped iff D < debounce_delay and accepted iff D >= debounce_delay,
\* whatever the directions of the two events.
C1_Debounce ==
    [][(Accepted(event) /\ QualifyingHandled)
         => /\ (event'.outcome = "dropped") <=> (now' - now < debounce_delay)
            /\ Accepted(event') <=> (now' - now >= debounce_delay)]_vars

\* C1 witness: a remove of the connected keyboard was dropped 400 ms after
\* the last accepted event.
C1_Witness ==
    /\ event.outcome = "dropped"
    /\ event.action = "remove"
    /\ keyboard_connected = "True"
    /\ now - last_event_time = debounce_delay - 1

\* C2 (idempotent observation): the targets of consecutive switch_input
\* invocations alternate, so a repeated event of one direction makes no
\* further invocation until the opposite direction has been accepted.
C2_Alternate ==
    \A i \in 2..Len(tasks) : tasks[i].connected # tasks[i - 1].connected

\* C2 witness: after an event made an invocation, an accepted event of the
\* same direction made none.
C2_Witness ==
    /\ Len(tasks) = 2
    /\ event.outcome = "noop"
    /\ TargetOf(event.action) = tasks[2].connected

\* Two identifiers are the same up to the case of their letters.
EqualsIgnoreCase(a, b) ==
    /\ Len(a) = Len(b)
    /\ \A i \in 1..Len(a) :
          \/ a[i] = b[i]
          \/ LowerChar(a[i]) = b[i]
          \/ a[i] = LowerChar(b[i])

\* The device is a USB keyboard with the configured vendor and model id.
Qualifies(device) ==
    /\ device.ID_BUS = "usb"
    /\ device.ID_INPUT_KEYBOARD = "1"
    /\ EqualsIgnoreCase(device.ID_VENDOR_ID, vendor_id)
    /\ EqualsIgnoreCase(device.ID_MODEL_ID, model_id)

\* C3 (filtering): an add/remove event passes the filter iff its device is
\* a USB keyboard whose vendor and model id equal the configured ones up to
\* case; any other event (missing ids included) is rejected with no
\* debounce or presence processing: the tracked state, the debounce
\* timestamp, the clock reading and the scheduled actions stay as they were.
C3_Filter ==
    /\ [](event # NoEvent => Qualifies(event.device))
    /\ [](rejected.outcome = "filtered" => ~Qualifies(rejected.device))
    /\ [][rejected' # rejected
            => UNCHANGED <<keyboard_connected, last_event_time, now, tasks,
                           event>>]_vars

\* C3 witness: a USB keyboard with the right vendor but no model id was
\* rejected.
C3_Witness ==
    /\ rejected.outcome = "filtered"
    /\ rejected.device.ID_BUS = "usb"
    /\ rejected.device.ID_INPUT_KEYBOARD = "1"
    /\ rejected.device.ID_VENDOR_ID = <<"4", "D">>
    /\ rejected.device.ID_MODEL_ID = <<>>

\* The startup enumeration holds the target keyboard.
TargetEnumerated == \E d \in initial_devices : Qualifies(d)

StartupTarget == IF TargetEnumerated THEN "True" ELSE "False"

\* C4 (startup determinism): the scan resolves keyboard_connected to
\* present iff the enumeration holds the target; exactly one switch_input,
\* with that target, is made at startup, and it has returned an outcome
\* before the first poll; no event is handled before that.
C4_Startup ==
    /\ monitor_pc = "startup"
         => /\ keyboard_connected = StartupTarget
            /\ Len(tasks) = 1
            /\ event = NoEvent /\ rejected = NoEvent
    /\ monitor_pc # "init" => tasks[1].connected = StartupTarget
    /\ (monitor_pc = "polling" \/ event # NoEvent \/ rejected # NoEvent)
         => tasks[1].result \in {"True", "False"}
    /\ (monitor_pc = "polling" /\ event = NoEvent)
         => Len(tasks) = 1 /\ keyboard_connected = StartupTarget

\* C4 witness: the keyboard was attached at startup, the startup action
\* failed, and the first poll is under way.
C4_Witness ==
    /\ monitor_pc = "polling"
    /\ event = NoEvent /\ rejected = NoEvent
    /\ TargetEnumerated
    /\ keyboard_connected = "True"
    /\ tasks[1].result = "False"

\* The calls of switch_input that talk to the TV.
Talking == {"connect", "turn_screen_on", "launch_app", "disconnect",
            "disconnect_except"}

\* C5 (one action in flight): an invocation talks to the TV only when every
\* invocation made before it has ended.
C5_OneInFlight ==
    \A i \in DOMAIN tasks, j \in DOMAIN tasks :
        (i < j /\ tasks[j].pc \in Talking) => tasks[i].pc = "done"

\* C6 (ordering): the TV completes the launch_app calls in the order the
\* transitions were accepted, and once every invocation has succeeded the
\* last one it completed is that of the current keyboard_connected.
C6_Ordering ==
    /\ \A a \in DOMAIN tv_log, b \in DOMAIN tv_log :
          a < b => tv_log[a] < tv_log[b]
    /\ (tasks # <<>> /\ \A i \in DOMAIN tasks : tasks[i].result = "True")
         => tasks[tv_log[Len(tv_log)]].connected = keyboard_connected

\* C7 (wake-failure isolation): when turn_screen_on fails, launch_app is
\* still called in the same invocation, and the outcome is what it is
\* without the wake failure: True needs launch_app to have succeeded, a
\* failed launch_app gives False, and False comes only from launch_app or a
\* later call.
C7_WakeIsolation ==
    \A i \in DOMAIN tasks :
        tasks[i].wake = "failed"
          => /\ tasks[i].launch # "None"
             /\ tasks[i].result = "True" => tasks[i].launch = "ok"
             /\ (tasks[i].launch = "failed" /\ tasks[i].pc = "done")
                  => tasks[i].result = "False"
             /\ tasks[i].result = "False"
                  => tasks[i].error \in {"launch_app", "disconnect"}
             /\ (tasks[i].launch = "ok" /\ tasks[i].error = "None"
                   /\ tasks[i].result \in {"True", "False"})
                  => tasks[i].result = "True"

\* C7 witness: the wake failed and the invocation still switched the input
\* and reported success.
C7_Witness ==
    \E i \in DOMAIN tasks :
        /\ tasks[i].wake = "failed"
        /\ tasks[i].launch = "ok"
        /\ tasks[i].result = "True"

\* Some call of the invocation raised.
SomeCallFailed(t) == t.wake = "failed" \/ t.error # "None"

\* A call on the TV client or the storage raised in this step.
CallFailed == failures' > failures

\* C8 as stated (failure containment): whichever call fails, the invocation
\* returns the failure outcome.
C8_AnyFailureFails ==
    \A i \in DOMAIN tasks :
        (tasks[i].result \in {"True", "False"} /\ SomeCallFailed(tasks[i]))
          => tasks[i].result = "False"

\* C8 amended: no failing call makes switch_input raise; a failure of
\* async_init, create, connect, launch_app or disconnect makes it return
\* False (a wake failure alone does not); a failing call changes nothing of
\* the run loop or of async_main, and an accepted transition still schedules
\* a new invocation afterwards.
C8_Containment ==
    /\ [](\A i \in DOMAIN tasks :
            /\ tasks[i].result # "raised"
            /\ (tasks[i].error # "None" /\ tasks[i].pc = "done")
                 => tasks[i].result = "False")
    /\ [][CallFailed
            => /\ UNCHANGED <<running, shutdown_event, main_pc>>
               /\ \/ monitor_pc' = monitor_pc
                  \/ monitor_pc = "startup" /\ monitor_pc' = LoopTest]_vars
    /\ [][(QualifyingHandled /\ event'.outcome = "switch")
            => /\ Len(tasks') = Len(tasks) + 1
               /\ tasks'[Len(tasks')].pc = "scheduled"]_vars

\* C8 witness: the startup action failed at connect, the loop went on
\* polling, and the next accepted transition scheduled a new invocation.
C8_Witness ==
    /\ Len(tasks) = 2
    /\ tasks[1].error = "connect"
    /\ tasks[1].result = "False"
    /\ tasks[2].pc = "scheduled"
    /\ monitor_pc = "polling"

\* C9 (unconditional release): no invocation that acquired a handle ends
\* without a disconnect of that handle having been attempted.
C9_Release ==
    \A i \in DOMAIN tasks :
        (tasks[i].pc = "done" /\ tasks[i].handle # 0)
          => tasks[i].disconnects >= 1

\* C10 (outcome): an invocation reports success exactly when launch_app
\* completed without error, whatever the disconnect does.
C10_Outcome ==
    \A i \in DOMAIN tasks :
        tasks[i].result \in {"True", "False"}
          => (tasks[i].result = "True" <=> tasks[i].launch = "ok")

\* A cleanup invocation was made in this step.
CleanupInvoked ==
    /\ Len(calls') = Len(calls) + 1
    /\ calls'[Len(calls')].op = "cleanup"

\* C11 (cleanup once): over any number of cleanup invocations on one
\* TVSwitcher, at most one of them calls the client's disconnect, and an
\* invocation made after the first changes nothing: it returns at once,
\* without a disconnect, and leaves client, storage and the flag alone.
C11_CleanupOnce ==
    /\ [](Cardinality({i \in DOMAIN calls : calls[i].disconnected}) <= 1)
    /\ [][(CleanupInvoked /\ cleanup_done)
            => /\ calls'[Len(calls')] = NewCall("cleanup")
               /\ UNCHANGED <<client, storage, cleanup_done, failures>>]_vars

\* C11 witness: a first cleanup disconnected the client, a later connect
\* set a client again, and a second cleanup returned without touching it.
C11_Witness ==
    \E i \in DOMAIN calls, j \in DOMAIN calls :
        /\ i < j
        /\ calls[i].op = "cleanup" /\ calls[i].disconnected
        /\ calls[i].pc = "done"
        /\ calls[j].op = "cleanup" /\ calls[j].pc = "done"
        /\ j = Len(calls)
        /\ client # "None"

\* C12 (shutdown does not interrupt work in progress): once the process has
\* stopped, every invocation that acquired a handle has run to its return,
\* with the disconnect of its handle attempted.
C12_NoInterrupt ==
    main_pc = "stopped"
      => \A i \in DOMAIN tasks :
            tasks[i].handle # 0
              => /\ tasks[i].result \in {"True", "False"}
                 /\ tasks[i].disconnects >= 1

\* An event was accepted in this step and changed the tracked state.
TransitionAccepted == QualifyingHandled /\ event'.outcome = "switch"

\* The Presence State an accepted event of that direction leads to.
NewPresence(action) == IF action = "add" THEN "True" ELSE "False"

\* The events attach@0 (accepted from absent) and attach@100 (dropped) have
\* been handled, and this step handles detach@900.
ExampleThirdEvent ==
    /\ Len(tasks) = 2
    /\ tasks[1].connected = "False"
    /\ tasks[2].connected = "True"
    /\ event.action = "add" /\ event.outcome = "dropped"
    /\ now = last_event_time + 1
    /\ QualifyingHandled
    /\ event'.action = "remove"
    /\ now' = last_event_time + 9

\* C13 (one action per accepted transition, no retry): an accepted
\* transition makes exactly one new switch_input invocation, whose target
\* is the new keyboard_connected; nothing else makes an invocation after
\* startup, so a failing call makes none and an ended invocation is never
\* run again; and with attach@0 accepted from absent and attach@100
\* dropped, detach@900 makes the second and last invocation, for absent.
C13_OneAction ==
    /\ [][TransitionAccepted
            => /\ keyboard_connected' = NewPresence(event'.action)
               /\ keyboard_connected' # keyboard_connected
               /\ tasks' = Append(tasks, NewTask(keyboard_connected'))]_vars
    /\ [][Len(tasks') # Len(tasks)
            => \/ monitor_pc = "init" /\ Len(tasks') = 1
               \/ TransitionAccepted /\ Len(tasks') = Len(tasks) + 1]_vars
    /\ [][\A i \in DOMAIN tasks :
            /\ i \in DOMAIN tasks'
            /\ tasks'[i].connected = tasks[i].connected
            /\ tasks[i].pc = "done" => tasks'[i] = tasks[i]]_vars
    /\ [][ExampleThirdEvent
            => /\ Len(tasks') = 3
               /\ tasks'[3].connected = "False"
               /\ keyboard_connected' = "False"]_vars

\* C13 witness: from absent, an attach was accepted, the action it made
\* failed, an attach 100 ms later was dropped, and the detach 900 ms after
\* the first attach made the second action; the failed one was not re-run.
C13_Witness ==
    /\ Len(tasks) = 3
    /\ tasks[1].connected = "False"
    /\ tasks[2].connected = "True"
    /\ tasks[2].result = "False"
    /\ tasks[3].connected = "False"
    /\ event.action = "remove" /\ event.outcome = "switch"
    /\ now = StartTime + 9
    /\ keyboard_connected = "False"

\* The calls switch_input makes on its own client.
UsesHandle == {"connect", "turn_screen_on", "launch_app", "disconnect",
               "disconnect_except"}

\* C14 (fresh handle per action): an invocation that makes a call on a
\* client holds a handle; it is one of the clients created, and no other
\* invocation, ended or running, holds the same one; TVSwitcher.client is
\* None at every point of a run of the daemon.
C14_FreshHandle ==
    /\ \A i \in DOMAIN tasks :
          /\ tasks[i].pc \in UsesHandle => tasks[i].handle # 0
          /\ tasks[i].disconnects > 0 => tasks[i].handle # 0
          /\ tasks[i].handle \in 0..next_handle
    /\ \A i \in DOMAIN tasks, j \in DOMAIN tasks :
          (i # j /\ tasks[i].handle # 0) => tasks[i].handle # tasks[j].handle
    /\ client = "None"

\* C14 witness: the startup action has ended having used one client, and
\* two later actions are using two more at the same time.
C14_Witness ==
    /\ Len(tasks) = 3
    /\ tasks[1].pc = "done" /\ tasks[1].handle # 0
    /\ tasks[2].pc = "launch_app"
    /\ tasks[3].pc = "connect"

\* What the monitor loop reads and writes.
monitor_vars ==
    <<event, rejected, now, last_event_time, keyboard_connected,
      error_logged>>

\* C15 (graceful termination): once a shutdown has been requested the
\* monitor is polling only on the poll that was already pending (no step
\* of the loop leaves it polling again), and the process then reaches the
\* stopped state with cleanup having run.
C15_Graceful ==
    /\ [][(shutdown_event' /\ monitor_pc' = "polling")
            => /\ monitor_pc = "polling"
               /\ UNCHANGED monitor_vars]_vars
    /\ shutdown_event ~> (main_pc = "stopped" /\ cleanup_done)

\* C15 witness: the request arrived while a poll was pending after an event
\* had been handled, and the process stopped with cleanup done.
C15_Witness ==
    /\ shutdown_event
    /\ monitor_pc = "cancelled"
    /\ event # NoEvent
    /\ main_pc = "stopped"
    /\ cleanup_done

\* The run loop was left in this step with no shutdown requested: only a
\* poll error does that.
LoopLeftUnrequested ==
    monitor_pc = "polling" /\ monitor_pc' = "exited" /\ ~shutdown_event

\* C16 (poll error): a poll error ends the run loop, which never polls or
\* handles an event again, and the process still reaches the stopped state
\* with cleanup having run; the error is logged when no shutdown had been
\* requested, and nothing is logged by the loop once one has been.
C16_PollError ==
    /\ [][LoopLeftUnrequested => error_logged']_vars
    /\ [][shutdown_event => error_logged' = error_logged]_vars
    /\ [][(error_logged' /\ ~error_logged)
            => monitor_pc = "polling" /\ monitor_pc' = "exited"]_vars
    /\ [][monitor_pc = "exited"
            => monitor_pc' = "exited" /\ UNCHANGED monitor_vars]_vars
    /\ (monitor_pc = "exited") ~> (main_pc = "stopped" /\ cleanup_done)

\* C16 witness: a poll raised with no shutdown requested; the error was
\* logged, the loop was left, and the process stopped with cleanup done.
C16_Witness ==
    /\ error_logged
    /\ ~shutdown_event
    /\ monitor_pc = "exited"
    /\ main_pc = "stopped"
    /\ cleanup_done

\* Invocation i starts awaiting storage.async_init() in this step.
EntersAsyncInit(i) ==
    /\ tasks'[i].pc = "async_init"
    /\ i \in DOMAIN tasks => tasks[i].pc # "async_init"

\* C17 (storage initialised at most once): the storage object is made only
\* when there is none and is never replaced or dropped afterwards;
\* async_init is awaited only by the invocation that made it, so by at most
\* one invocation of the run; every invocation that goes on to create a
\* client does so with the storage already made.
C17_StorageOnce ==
    /\ [][storage # "None"
            => /\ storage' # "None"
               /\ storage = "ready" => storage' = "ready"]_vars
    /\ [][\A i \in DOMAIN tasks' :
            EntersAsyncInit(i)
              => /\ storage = "None" /\ storage' = "created"
                 /\ \A j \in DOMAIN tasks :
                       tasks[j].pc = "scheduled"]_vars
    /\ [](\A i \in DOMAIN tasks :
            tasks[i].pc \notin {"scheduled", "done"} => storage # "None")
    /\ [](Cardinality({i \in DOMAIN tasks : tasks[i].pc = "async_init"}) <= 1)

\* C17 witness: the startup action initialised the storage, and two later
\* actions created their clients with it.
C17_Witness ==
    /\ storage = "ready"
    /\ Len(tasks) = 3
    /\ tasks[1].result = "True"
    /\ tasks[2].handle # 0
    /\ tasks[3].handle # 0

\* The last switch_input invocation made has not ended.
LastPending == tasks # <<>> /\ tasks[Len(tasks)].pc # "done"

\* C18 (update before dispatch): from the moment an invocation is scheduled
\* keyboard_connected holds its target, and an event accepted while that
\* invocation is pending or executing is compared with this value: it makes
\* a new invocation iff it asks for the other state.
C18_UpdateFirst ==
    /\ [](tasks # <<>> => keyboard_connected = tasks[Len(tasks)].connected)
    /\ [][(LastPending /\ QualifyingHandled /\ Accepted(event'))
            => (event'.outcome = "switch"
                  <=> NewPresence(event'.action)
                        # tasks[Len(tasks)].connected)]_vars

\* C18 witness: an attach was accepted while the action of the previous
\* attach had not ended, and it made no second action.
C18_Witness ==
    /\ Len(tasks) = 2
    /\ tasks[1].connected = "False"
    /\ tasks[2].pc \notin {"scheduled", "done"}
    /\ event.action = "add" /\ event.outcome = "noop"
    /\ now = last_event_time

\* The outcome of some switch_input invocation became known in this step.
OutcomeKnown ==
    \E i \in DOMAIN tasks :
        i \in DOMAIN tasks' /\ tasks'[i].result # tasks[i].result

\* C19 (Presence State invariant): keyboard_connected is None exactly until
\* the startup scan, which happens once; it never becomes None again; after
\* startup it changes only in a step that handles a qualifying event which
\* passes the debounce window and asks for the other state; a step in which
\* an invocation fails or returns leaves it as it is.
C19_PresenceState ==
    /\ [](keyboard_connected = "None" <=> monitor_pc = "init")
    /\ [][monitor_pc # "init"
            => monitor_pc' # "init" /\ keyboard_connected' # "None"]_vars
    /\ [][(keyboard_connected # "None"
             /\ keyboard_connected' # keyboard_connected)
            => /\ QualifyingHandled
               /\ Qualifies(event'.device)
               /\ event'.outcome = "switch"
               /\ now' - last_event_time >= debounce_delay
               /\ keyboard_connected' = NewPresence(event'.action)]_vars
    /\ [][(OutcomeKnown \/ CallFailed) => UNCHANGED keyboard_connected]_vars

\* C19 witness: an attach was accepted from absent and its action failed;
\* the state is still present.
C19_Witness ==
    /\ Len(tasks) = 2
    /\ tasks[1].connected = "False"
    /\ tasks[2].connected = "True"
    /\ tasks[2].result = "False"
    /\ keyboard_connected = "True"

\* The last qualifying event handled was an accepted attach, and this step
\* handles a detach of the target keyboard within the debounce window.
DetachInWindow ==
    /\ event.action = "add" /\ Accepted(event)
    /\ QualifyingHandled
    /\ event'.action = "remove"
    /\ now' - last_event_time < debounce_delay

\* The last qualifying event handled was a detach dropped while the state
\* was present.
DetachLost ==
    /\ event.action = "remove" /\ event.outcome = "dropped"
    /\ keyboard_connected = "True"

\* C20 (lost detach): a detach of the target keyboard handled within the
\* debounce window of an accepted attach is dropped: the state stays
\* present, the window is not restarted and no invocation is scheduled;
\* from then on the state changes and an invocation is made only in a step
\* that accepts a qualifying event.
C20_LostDetach ==
    /\ [][DetachInWindow
            => /\ event'.outcome = "dropped"
               /\ keyboard_connected = "True"
               /\ UNCHANGED <<keyboard_connected, last_event_time, tasks>>]_vars
    /\ [][(DetachLost /\ (Len(tasks') # Len(tasks)
                           \/ keyboard_connected' # keyboard_connected))
            => QualifyingHandled /\ Accepted(event')]_vars

\* C20 witness: from absent an attach was accepted, the detach 200 ms later
\* was dropped, and the attach action has since ended: the state is present
\* and no action for absent exists.
C20_Witness ==
    /\ DetachLost
    /\ now - last_event_time = 2
    /\ Len(tasks) = 2
    /\ tasks[1].connected = "False"
    /\ tasks[2].connected = "True"
    /\ tasks[2].result = "True"

\* What a handled event may change besides the record of the event itself.
presence_vars == <<keyboard_connected, last_event_time, tasks>>

\* After an event accepted at 0 ms and one dropped at 400 ms, this step
\* handles a qualifying event at 600 ms.
ExampleAfterDrop ==
    /\ event.outcome = "dropped"
    /\ now = last_event_time + 4
    /\ QualifyingHandled
    /\ now' = last_event_time + 6

\* C21 (frame of dropped events): an event that does not qualify and an
\* event dropped by the debounce leave keyboard_connected and
\* last_event_time as they were and schedule no invocation; a qualifying
\* event is dropped iff it comes less than debounce_delay after
\* last_event_time, the time of the last accepted event, whatever was
\* dropped in between; with an event accepted at 0 ms and one dropped at
\* 400 ms, the event at 600 ms is accepted.
C21_Frame ==
    /\ [][rejected' # rejected => UNCHANGED presence_vars]_vars
    /\ [][(QualifyingHandled /\ event'.outcome = "dropped")
            => UNCHANGED presence_vars]_vars
    /\ [][QualifyingHandled
            => /\ event'.outcome = "dropped"
                    <=> now' - last_event_time < debounce_delay
               /\ Accepted(event') => last_event_time' = now']_vars
    /\ [][ExampleAfterDrop
            => Accepted(event') /\ last_event_time' = now']_vars

\* C21 witness: after an accepted attach, a detach 400 ms later was dropped
\* and an event of another keyboard was rejected; the state is still
\* present, the timestamp is that of the attach and there is no action for
\* absent.
C21_Witness ==
    /\ event.action = "remove" /\ event.outcome = "dropped"
    /\ rejected.outcome = "filtered"
    /\ now = last_event_time + 4
    /\ keyboard_connected = "True"
    /\ Len(tasks) = 2
    /\ tasks[2].connected = "True"

\* The last qualifying event handled was accepted as a no-op, and this step
\* handles an event of the opposite direction within the debounce window
\* of that no-op.
OppositeAfterNoop ==
    /\ event.outcome = "noop"
    /\ QualifyingHandled
    /\ NewPresence(event'.action) # keyboard_connected
    /\ now' - now < debounce_delay

\* C22 (debounce before comparison): an event is taken as a no-op only when
\* it has passed the debounce window, and it then restarts the window
\* (last_event_time becomes its time) while the state and the scheduled
\* invocations stay as they were; an event of the opposite direction
\* handled within the window of such a no-op is dropped and changes nothing.
C22_NoopRestarts ==
    /\ [][(QualifyingHandled /\ event'.outcome = "noop")
            => /\ now' - last_event_time >= debounce_delay
               /\ NewPresence(event'.action) = keyboard_connected
               /\ last_event_time' = now'
               /\ UNCHANGED <<keyboard_connected, tasks>>]_vars
    /\ [][(QualifyingHandled /\ now' - last_event_time < debounce_delay)
            => event'.outcome = "dropped"]_vars
    /\ [][OppositeAfterNoop
            => /\ event'.outcome = "dropped"
               /\ UNCHANGED presence_vars]_vars

\* C22 witness: the keyboard was attached at startup, an attach was
\* accepted as a no-op, and the detach 300 ms later was dropped: the state
\* is present and only the startup action exists.
C22_Witness ==
    /\ Len(tasks) = 1
    /\ tasks[1].connected = "True"
    /\ event.action = "remove" /\ event.outcome = "dropped"
    /\ last_event_time >= StartTime
    /\ now = last_event_time + 3
    /\ keyboard_connected = "True"

====
